---- MODULE Spec2Model ----
(***************************************************************************)
(* Model of yolov8_ros/tracking_node.py: the TrackingNode that feeds       *)
(* synchronized (image, detections) pairs to a multi-object tracker and    *)
(* republishes the detections annotated with track identifiers, plus the   *)
(* set_tracked_object service that selects one identifier.                 *)
(*                                                                         *)
(* The tracker object (self.boxmot_tracker) is a third-party library; its  *)
(* track lifecycle is modelled from the specification (sections 3, 4.4 and *)
(* 4.5). What the node reads from it is a list of rows                     *)
(*     <<x1, y1, x2, y2, id, conf, cls, det_ind>>;                         *)
(* the last column is whatever the library reports and is drawn from       *)
(* IndRange.                                                               *)
(***************************************************************************)
EXTENDS Integers, Sequences, FiniteSets, TLC

VARIABLES
    selected_object_id,   \* self.selected_object_id: None or <<object_id>>
    tracks,               \* tracker state: the set of live Track records
    next_id,              \* tracker state: the next fresh track identifier
    born,                 \* ghost: number of physical tracks created so far
    lastCb,               \* ghost: the callback that ran last
    img_header,           \* img_msg.header of the last frame
    det_header,           \* detections_msg.header of the last frame
    detections_in,        \* detections_msg.detections as received
    update_input,         \* what boxmot_tracker.update was called with, per call
    boxmot_tracks,        \* rows returned by boxmot_tracker.update
    pubs,                 \* messages published on "tracking" by the last callback
    pub_owner,            \* ghost: per published entry, the physical track it shows
    last_request,         \* ghost: object_id of the most recent request
    emitted,              \* ghost: <<id string, physical track>> pairs published
    ref_tracks,           \* ghost: tracker of a node that never gets a request
    ref_next_id,          \* ghost: next_id of that reference tracker
    executing             \* executor: callback invocations in progress

vars == <<selected_object_id, tracks, next_id, born, lastCb, img_header,
          det_header, detections_in, update_input, boxmot_tracks, pubs,
          pub_owner, last_request, emitted, ref_tracks, ref_next_id, executing>>

----------------------------------------------------------------------------
(* Bounds of the model *)

\* largest number of detections in one DetectionArray
MaxDets == 2
\* largest track identifier the tracker hands out in a session
MaxId == 2

(* Tracker configuration (specification, 4.4 and 8) *)
MinHits == 3
MaxAge == 2

----------------------------------------------------------------------------
(* Python values *)

None == <<>>

Min(a, b) == IF a < b THEN a ELSE b

Digits == <<"0", "1", "2", "3", "4", "5", "6", "7", "8", "9">>

RECURSIVE NatStr(_)
NatStr(n) == IF n < 10 THEN Digits[n + 1]
             ELSE NatStr(n \div 10) \o Digits[(n % 10) + 1]

\* str(int(v)) for an integral v
IntStr(n) == IF n < 0 THEN "-" \o NatStr(-n) ELSE NatStr(n)

\* list[i] of a Python list of length n: the 1-based position, 0 for IndexError
PyIndex(n, i) == IF i >= 0 /\ i < n THEN i + 1
                 ELSE IF i < 0 /\ i >= -n THEN n + i + 1
                 ELSE 0

----------------------------------------------------------------------------
(* Messages *)

\* Raw detections a DetectionArray may carry: centre, size, score (in tenths)
\* and class. Sizes are even, so that size / 2 is exact. The second one is
\* malformed: a zero width and a score of 1.5.
RawDetections ==
    { [cx |-> 4, cy |-> 6, w |-> 4, h |-> 8, score |-> 9, class_id |-> 0],
      [cx |-> 10, cy |-> 6, w |-> 0, h |-> 4, score |-> 15, class_id |-> 1] }

DetectionMsgs == UNION { [1..n -> RawDetections] : n \in 0..MaxDets }

\* The Detection objects of detections_msg.detections. obj is the identity of
\* the object (its position in the message), id the Detection's id field.
InputDetections(raw) ==
    [i \in 1..Len(raw) |->
        [obj |-> i, cx |-> raw[i].cx, cy |-> raw[i].cy, w |-> raw[i].w,
         h |-> raw[i].h, score |-> raw[i].score, class_id |-> raw[i].class_id,
         id |-> ""]]

\* detection_list: one [x1, y1, x2, y2, score, class_id] per detection
ParseDetections(dets) ==
    [i \in 1..Len(dets) |->
        <<dets[i].cx - dets[i].w \div 2, dets[i].cy - dets[i].h \div 2,
          dets[i].cx + dets[i].w \div 2, dets[i].cy + dets[i].h \div 2,
          dets[i].score, dets[i].class_id>>]

\* the guard of the tracking block
UpdateCalled(detection_list) == Len(detection_list) > 0

----------------------------------------------------------------------------
(* The tracker: Track Lifecycle Manager and Tracker Facade *)

\* values the library may report in the last column of a row
IndRange == -1..MaxDets

TrackIds(trks) == { t.id : t \in trks }

Matched(t) ==
    [t EXCEPT !.hits = Min(t.hits + 1, MinHits),
              !.time_since_update = 0,
              !.state = IF t.hits + 1 >= MinHits THEN "Confirmed" ELSE t.state]

Unmatched(t) == [t EXCEPT !.time_since_update = t.time_since_update + 1]

\* an unmatched track survives unless Tentative or older than MaxAge
Survives(t) == t.state = "Confirmed" /\ t.time_since_update + 1 <= MaxAge

NewTrack(id, uid) ==
    [id |-> id, uid |-> uid, hits |-> 1, time_since_update |-> 0,
     state |-> IF 1 >= MinHits THEN "Confirmed" ELSE "Tentative"]

\* One update with n detections of which the tracks with ids in M are matched;
\* every other detection starts a track.
Lifecycle(trks, nid, brn, n, M) ==
    LET k == n - Cardinality(M)
    IN [tracks |-> { Matched(t) : t \in { u \in trks : u.id \in M } }
                   \cup { Unmatched(t) :
                            t \in { u \in trks : u.id \notin M /\ Survives(u) } }
                   \cup { NewTrack(nid + j, brn + j + 1) : j \in 0..(k - 1) },
        next_id |-> nid + k,
        born |-> brn + k]

\* the matchings an update with n detections may find
Matchings(trks, nid, n) ==
    { M \in SUBSET TrackIds(trks) :
        /\ Cardinality(M) <= n
        /\ nid + (n - Cardinality(M)) - 1 <= MaxId }

\* a facade that returns Tentative tracks too
SurfacedAll(t) == TRUE

\* only Confirmed tracks are returned
Surfaced(t) == t.state = "Confirmed"

RECURSIVE IdSeq(_)
IdSeq(S) == IF S = {} THEN <<>>
            ELSE LET m == CHOOSE x \in S : \A y \in S : x <= y
                 IN <<m>> \o IdSeq(S \ {m})

\* the box the tracker reports for a track (x1, y1, x2, y2)
TrackBox(id) == <<2 * id, 2, 2 * id + 4, 8>>

Row(id, ind) ==
    LET b == TrackBox(id) IN <<b[1], b[2], b[3], b[4], id, 9, 0, ind>>

\* the rows update returns: one per surfaced track, by ascending id
Rows(trks, inds) ==
    LET ids == IdSeq({ t.id : t \in { u \in trks : Surfaced(u) } })
    IN [i \in 1..Len(ids) |-> Row(ids[i], inds[ids[i]])]

UidOf(trks, id) ==
    IF \E t \in trks : t.id = id
    THEN (CHOOSE t \in trks : t.id = id).uid
    ELSE 0

----------------------------------------------------------------------------
(* ultralytics Boxes over a row without its last column *)

Boxes(data) == data

Boxes_is_track(box) == Len(box) = 7

\* the id read from the class column
Boxes_id_cls(box) == IF Len(box) = 7 THEN <<box[Len(box)]>> ELSE None

Boxes_id(box) == IF Boxes_is_track(box) THEN <<box[Len(box) - 2]>> ELSE None

Boxes_xywh(box) ==
    <<(box[1] + box[3]) \div 2, (box[2] + box[4]) \div 2,
      box[3] - box[1], box[4] - box[2]>>

----------------------------------------------------------------------------
(* detections_cb *)

\* detections_msg.detections[int(t[-1])]: the position, 0 when the lookup raises
Resolve(dets, t) == PyIndex(Len(dets), t[Len(t)])

\* the selection filter with the comparison inverted
SkipTrackInverted(sel, box_id) ==
    sel # None /\ sel[1] # -1 /\ box_id = sel

\* the selection filter
SkipTrack(sel, box_id) ==
    sel # None /\ sel[1] # -1 /\ box_id # sel

TrackIdString(tracked_box) ==
    IF Boxes_is_track(tracked_box) THEN IntStr(Boxes_id(tracked_box)[1]) ELSE ""

\* One iteration of the loop over boxmot_tracks, for row k. st.dets are the
\* Detection objects, st.out the positions of the objects appended to the
\* outgoing array, st.writer (ghost) the row that wrote each object last.
TrackStep(rows, k, st, sel) ==
    LET t == rows[k]
        tracked_box == Boxes(SubSeq(t, 1, Len(t) - 1))
        pos == Resolve(st.dets, t)
    IN IF pos = 0 THEN st
       ELSE IF SkipTrack(sel, Boxes_id(tracked_box)) THEN st
       ELSE LET box == Boxes_xywh(tracked_box)
            IN [dets |-> [st.dets EXCEPT ![pos] =
                            [@ EXCEPT !.cx = box[1], !.cy = box[2],
                                      !.w = box[3], !.h = box[4],
                                      !.id = TrackIdString(tracked_box)]],
                out |-> Append(st.out, pos),
                writer |-> [st.writer EXCEPT ![pos] = k]]

RECURSIVE TrackLoop(_, _, _, _)
TrackLoop(rows, k, st, sel) ==
    IF k > Len(rows) THEN st
    ELSE TrackLoop(rows, k + 1, TrackStep(rows, k, st, sel), sel)

LoopStart(dets) ==
    [dets |-> dets, out |-> <<>>, writer |-> [i \in 1..Len(dets) |-> 0]]

\* tracked_detections_msg as serialized by publish
TrackedMsg(header, st) ==
    [header |-> header,
     detections |-> [j \in 1..Len(st.out) |-> st.dets[st.out[j]]]]

\* publish placed inside the tracking block
PublishedWhenTracking(header, detection_list, st) ==
    IF Len(detection_list) > 0 THEN <<TrackedMsg(header, st)>> ELSE <<>>

\* the messages one invocation publishes
Published(header, detection_list, st) == <<TrackedMsg(header, st)>>

\* ghost: the physical track each published entry shows
Owners(trks, rows, st) ==
    [j \in 1..Len(st.out) |-> UidOf(trks, rows[st.writer[st.out[j]]][5])]

----------------------------------------------------------------------------
(* set_tracked_object service *)

\* object ids a request may carry
ObjectIds == {-1, 1, 2}

\* node is [selected_object_id, tracks, next_id]

\* a reset that also starts the tracker afresh
reset_tracker_recreates(node) ==
    [node EXCEPT !.selected_object_id = None, !.tracks = {}]

reset_tracker(node) == [node EXCEPT !.selected_object_id = None]

set_tracked_object_cb(node, object_id) ==
    IF object_id = -1
    THEN reset_tracker(node)
    ELSE [node EXCEPT !.selected_object_id = <<object_id>>]

Node == [selected_object_id |-> selected_object_id, tracks |-> tracks,
         next_id |-> next_id]

----------------------------------------------------------------------------
(* The executor: main() runs rclpy.spin(node) *)

\* an executor with two threads
CanStartMultiThreaded(running) == Len(running) < 2

\* rclpy.spin(node) spins the global single-threaded executor: it takes the
\* next ready callback only when none is being executed
CanStart(running) == running = <<>>

RemoveAt(seq, i) == SubSeq(seq, 1, i - 1) \o SubSeq(seq, i + 1, Len(seq))

\* an invocation in progress: its arguments and locals; sels (ghost) are the
\* values of selected_object_id its loop has read
Invocation(cb, pc, object_id, header, dets) ==
    [cb |-> cb, pc |-> pc, object_id |-> object_id, header |-> header,
     dets |-> dets, detection_list |-> <<>>, rows |-> <<>>, k |-> 1,
     st |-> LoopStart(dets), sels |-> {}]

\* (img_msg.header, detections_msg.header) of a synchronized pair
HeaderPairs == { <<2, 1>> }

Init ==
    /\ selected_object_id = None
    /\ tracks = {}
    /\ next_id = 1
    /\ born = 0
    /\ lastCb = "none"
    /\ img_header = 1
    /\ det_header = 1
    /\ detections_in = <<>>
    /\ update_input = <<>>
    /\ boxmot_tracks = <<>>
    /\ pubs = <<>>
    /\ pub_owner = <<>>
    /\ last_request = None
    /\ emitted = {}
    /\ ref_tracks = {}
    /\ ref_next_id = 1
    /\ executing = <<>>

\* The synchronizer has a pair and the executor enters detections_cb with it:
\* the arguments are bound, nothing of the body has run.
EnterDetectionsCb ==
    /\ CanStart(executing)
    /\ \E hp \in HeaderPairs, raw \in DetectionMsgs :
         \E dets \in {InputDetections(raw)} :
            /\ executing' = Append(executing,
                  Invocation("detections_cb", "start", 0, hp[1], dets))
            /\ img_header' = hp[1]
            /\ det_header' = hp[2]
            /\ detections_in' = dets
    /\ lastCb' = "entered"
    /\ update_input' = <<>>
    /\ boxmot_tracks' = <<>>
    /\ pubs' = <<>>
    /\ pub_owner' = <<>>
    /\ UNCHANGED <<selected_object_id, tracks, next_id, born, last_request,
                   emitted, ref_tracks, ref_next_id>>

----------------------------------------------------------------------------
(* The node, one callback at a time *)

SetTrackedObject ==
    /\ CanStart(executing)
    /\ \E object_id \in ObjectIds :
         LET node == set_tracked_object_cb(Node, object_id)
         IN /\ selected_object_id' = node.selected_object_id
            /\ tracks' = node.tracks
            /\ next_id' = node.next_id
            /\ last_request' = <<object_id>>
    /\ lastCb' = "set_tracked_object"
    /\ UNCHANGED <<born, img_header, det_header, detections_in, update_input,
                   boxmot_tracks, pubs, pub_owner, emitted, ref_tracks,
                   ref_next_id, executing>>

\* the tracker state after the tracking block, for matching M
AfterUpdate(called, n, M) ==
    IF called THEN Lifecycle(tracks, next_id, born, n, M)
    ELSE [tracks |-> tracks, next_id |-> next_id, born |-> born]

RefAfterUpdate(called, n, M) ==
    IF called THEN Lifecycle(ref_tracks, ref_next_id, 0, n, M)
    ELSE [tracks |-> ref_tracks, next_id |-> ref_next_id, born |-> 0]

SurfacedIds(trks) == { t.id : t \in { u \in trks : Surfaced(u) } }

\* the body of detections_cb, from the parse to the publish
DetectionsCb ==
    /\ \E i \in 1..Len(executing) :
         /\ executing[i].cb = "detections_cb"
         /\ executing[i].pc = "start"
         /\ \E dets \in {executing[i].dets} :
            \E detection_list \in {ParseDetections(dets)} :
            \E called \in {UpdateCalled(detection_list)} :
            \E M \in (IF called
                      THEN Matchings(tracks, next_id, Len(detection_list))
                      ELSE {{}}) :
            \E after \in {AfterUpdate(called, Len(detection_list), M)} :
            \E ref \in {RefAfterUpdate(called, Len(detection_list), M)} :
            \E inds \in (IF called
                         THEN [SurfacedIds(after.tracks) -> IndRange]
                         ELSE {<<>>}) :
            \E rows \in {IF called THEN Rows(after.tracks, inds) ELSE <<>>} :
            \E st \in {TrackLoop(rows, 1, LoopStart(dets),
                                 selected_object_id)} :
            \E own \in {Owners(after.tracks, rows, st)} :
               /\ update_input' = IF called THEN <<detection_list>> ELSE <<>>
               /\ tracks' = after.tracks
               /\ next_id' = after.next_id
               /\ born' = after.born
               /\ ref_tracks' = { [t EXCEPT !.uid = 0] : t \in ref.tracks }
               /\ ref_next_id' = ref.next_id
               /\ boxmot_tracks' = rows
               /\ pubs' = pubs \o Published(executing[i].header,
                                            detection_list, st)
               /\ pub_owner' = own
               /\ emitted' = emitted \cup
                     { <<st.dets[st.out[j]].id, own[j]>> :
                         j \in 1..Len(st.out) }
         /\ executing' = RemoveAt(executing, i)
    /\ lastCb' = "detections"
    /\ UNCHANGED <<selected_object_id, last_request, img_header, det_header,
                   detections_in>>

Next == EnterDetectionsCb \/ DetectionsCb \/ SetTrackedObject

Spec == Init /\ [][Next]_vars

----------------------------------------------------------------------------
(* The node under its executor, a callback being a sequence of steps: the     *)
(* parse and the tracker update, one loop iteration per row, the publish      *)

ExecUpdate ==
    \E i \in 1..Len(executing) :
    /\ executing[i].cb = "detections_cb"
    /\ executing[i].pc = "start"
    /\ \E detection_list \in {ParseDetections(executing[i].dets)} :
       \E called \in {UpdateCalled(detection_list)} :
       \E M \in (IF called
                 THEN Matchings(tracks, next_id, Len(detection_list))
                 ELSE {{}}) :
       \E after \in {AfterUpdate(called, Len(detection_list), M)} :
       \E ref \in {RefAfterUpdate(called, Len(detection_list), M)} :
       \E inds \in (IF called THEN [SurfacedIds(after.tracks) -> IndRange]
                    ELSE {<<>>}) :
       \E rows \in {IF called THEN Rows(after.tracks, inds) ELSE <<>>} :
          /\ update_input' = IF called THEN <<detection_list>> ELSE <<>>
          /\ tracks' = after.tracks
          /\ next_id' = after.next_id
          /\ born' = after.born
          /\ ref_tracks' = { [t EXCEPT !.uid = 0] : t \in ref.tracks }
          /\ ref_next_id' = ref.next_id
          /\ boxmot_tracks' = rows
          /\ executing' = [executing EXCEPT ![i].pc = "loop",
                                            ![i].detection_list = detection_list,
                                            ![i].rows = rows]
    /\ UNCHANGED <<selected_object_id, lastCb, img_header, det_header,
                   detections_in, pubs, pub_owner, last_request, emitted>>

ExecLoop ==
    \E i \in 1..Len(executing) :
    /\ executing[i].cb = "detections_cb"
    /\ executing[i].pc = "loop"
    /\ executing[i].k <= Len(executing[i].rows)
    /\ executing' =
          [executing EXCEPT
             ![i].st = TrackStep(executing[i].rows, executing[i].k, @,
                                 selected_object_id),
             ![i].sels = @ \cup {selected_object_id},
             ![i].k = @ + 1]
    /\ UNCHANGED <<selected_object_id, tracks, next_id, born, lastCb,
                   img_header, det_header, detections_in, update_input,
                   boxmot_tracks, pubs, pub_owner, last_request, emitted,
                   ref_tracks, ref_next_id>>

ExecPublish ==
    \E i \in 1..Len(executing) :
    /\ executing[i].cb = "detections_cb"
    /\ executing[i].pc = "loop"
    /\ executing[i].k > Len(executing[i].rows)
    /\ \E st \in {executing[i].st} :
       \E own \in {Owners(tracks, executing[i].rows, st)} :
          /\ pubs' = pubs \o Published(executing[i].header,
                                       executing[i].detection_list, st)
          /\ pub_owner' = own
          /\ emitted' = emitted \cup
                { <<st.dets[st.out[j]].id, own[j]>> : j \in 1..Len(st.out) }
    /\ executing' = RemoveAt(executing, i)
    /\ lastCb' = "detections"
    /\ UNCHANGED <<selected_object_id, tracks, next_id, born, img_header,
                   det_header, detections_in, update_input, boxmot_tracks,
                   last_request, ref_tracks, ref_next_id>>

ExecEnterSetTracked ==
    /\ CanStart(executing)
    /\ \E object_id \in ObjectIds :
         executing' = Append(executing,
            Invocation("set_tracked_object_cb", "set", object_id, 0, <<>>))
    /\ UNCHANGED <<selected_object_id, tracks, next_id, born, lastCb,
                   img_header, det_header, detections_in, update_input,
                   boxmot_tracks, pubs, pub_owner, last_request, emitted,
                   ref_tracks, ref_next_id>>

ExecSetTracked ==
    \E i \in 1..Len(executing) :
    /\ executing[i].cb = "set_tracked_object_cb"
    /\ LET node == set_tracked_object_cb(Node, executing[i].object_id)
       IN /\ selected_object_id' = node.selected_object_id
          /\ tracks' = node.tracks
          /\ next_id' = node.next_id
    /\ last_request' = <<executing[i].object_id>>
    /\ lastCb' = "set_tracked_object"
    /\ executing' = RemoveAt(executing, i)
    /\ UNCHANGED <<born, img_header, det_header, detections_in, update_input,
                   boxmot_tracks, pubs, pub_owner, emitted, ref_tracks,
                   ref_next_id>>

NextExec ==
    \/ EnterDetectionsCb
    \/ ExecUpdate
    \/ ExecLoop
    \/ ExecPublish
    \/ ExecEnterSetTracked
    \/ ExecSetTracked

SpecExec == Init /\ [][NextExec]_vars

----------------------------------------------------------------------------
(* Properties *)

\* the detections of the array the last detections_cb published
Out == IF Len(pubs) > 0 THEN pubs[1].detections ELSE <<>>

RowInd(t) == t[Len(t)]
RowId(t) == t[5]

RECURSIVE ResolvedFrom(_, _, _)
\* positions, in row order, of the rows from k on whose index resolves
ResolvedFrom(rows, k, n) ==
    IF k > Len(rows) THEN <<>>
    ELSE (IF PyIndex(n, RowInd(rows[k])) = 0 THEN <<>>
          ELSE <<PyIndex(n, RowInd(rows[k]))>>) \o ResolvedFrom(rows, k + 1, n)

\* C1: after a frame, if the most recent request carried an object_id other
\* than -1, every published detection has that id; if there was no request or
\* the most recent one carried -1, one entry is published for every returned
\* row whose detection index resolves, in row order, whatever its id.
C1_SelectionFilter ==
    lastCb = "detections" =>
        /\ (last_request # None /\ last_request[1] # -1) =>
              \A j \in 1..Len(Out) : Out[j].id = IntStr(last_request[1])
        /\ (last_request = None \/ last_request = <<-1>>) =>
              [j \in 1..Len(Out) |-> Out[j].obj]
                 = ResolvedFrom(boxmot_tracks, 1, Len(detections_in))

C1_Witness ==
    /\ lastCb = "detections"
    /\ last_request = <<1>>
    /\ Len(Out) = 1
    /\ \E k \in 1..Len(boxmot_tracks) :
          /\ RowId(boxmot_tracks[k]) = 2
          /\ PyIndex(Len(detections_in), RowInd(boxmot_tracks[k])) # 0

\* C2: a frame with an empty detection list still steps the tracker: every
\* track that stays has its time_since_update increased by one, no identifier
\* is handed out, and the published ids are those of the Confirmed tracks.
C2_EmptyFrameAgesTracks ==
    [][(lastCb' = "detections" /\ detections_in' = <<>>) =>
          /\ next_id' = next_id
          /\ \A t \in tracks : \A u \in tracks' :
                u.id = t.id => u.time_since_update = t.time_since_update + 1
          /\ { Out[j].id : j \in 1..Len(Out) }'
                = { IntStr(u.id) : u \in { v \in tracks' : v.state = "Confirmed" } }
      ]_vars

\* C3: an id string once published for one physical track is never published
\* for another one.
C3_IdsNeverReused ==
    \A p \in emitted : \A q \in emitted : p[1] = q[1] => p[2] = q[2]

C3_Witness ==
    \E p \in emitted : \E q \in emitted :
        /\ p[2] # q[2]
        /\ \A t \in tracks : t.uid # p[2]

\* C4: every published detection shows a track that is Confirmed and has
\* accumulated MinHits hits, under that track's id.
C4_OnlyConfirmedSurfaced ==
    lastCb = "detections" =>
        \A j \in 1..Len(Out) :
            \E t \in tracks :
                /\ t.uid = pub_owner[j]
                /\ t.state = "Confirmed"
                /\ t.hits >= MinHits
                /\ Out[j].id = IntStr(t.id)

C4_Witness ==
    /\ lastCb = "detections"
    /\ Len(Out) = 1
    /\ \E t \in tracks : t.state = "Tentative"
    /\ \E t \in tracks : t.state = "Confirmed" /\ t.uid = pub_owner[1]

\* C5: no malformed detection reaches the tracker: every box handed to update
\* has positive width and height and a score within [0, 1] (0..10 tenths).
C5_MalformedDropped ==
    \A c \in 1..Len(update_input) : \A i \in 1..Len(update_input[c]) :
        LET d == update_input[c][i]
        IN d[3] - d[1] > 0 /\ d[4] - d[2] > 0 /\ d[5] >= 0 /\ d[5] <= 10

\* C6: the published array holds no input detection twice and no track id
\* twice.
C6_PartialBijection ==
    lastCb = "detections" =>
        \A i \in 1..Len(Out) : \A j \in 1..Len(Out) :
            i # j => Out[i].obj # Out[j].obj /\ Out[i].id # Out[j].id

\* C7: whatever requests were served, the tracker is in the state, and has
\* handed out the ids, of a node fed the same frames and never sent a request.
C7_FilterLeavesTrackerAlone ==
    /\ { [t EXCEPT !.uid = 0] : t \in tracks } = ref_tracks
    /\ next_id = ref_next_id

C7_Witness ==
    /\ lastCb = "detections"
    /\ selected_object_id = <<2>>
    /\ last_request = <<2>>
    /\ Len(boxmot_tracks) = 2
    /\ Len(Out) = 1

\* C9: a detections_cb invocation publishes exactly one array, under the
\* image's header; the array is empty when the detection list is empty, when
\* the tracker returns nothing, and when every row is skipped or filtered out.
C9_OnePublishPerFrame ==
    lastCb = "detections" =>
        /\ Len(pubs) = 1
        /\ pubs[1].header = img_header
        /\ ( \/ detections_in = <<>>
             \/ boxmot_tracks = <<>>
             \/ \A k \in 1..Len(boxmot_tracks) :
                   \/ PyIndex(Len(detections_in), RowInd(boxmot_tracks[k])) = 0
                   \/ /\ selected_object_id # None
                      /\ selected_object_id # <<RowId(boxmot_tracks[k])>> )
           => pubs[1].detections = <<>>

C9_Witness ==
    /\ lastCb = "detections"
    /\ detections_in = <<>>
    /\ tracks # {}
    /\ Len(pubs) = 1
    /\ pubs[1].detections = <<>>

\* C10: every published detection is the input detection at the index of some
\* returned row, with that row's box and a non-empty id; and a row whose index
\* is negative or at or beyond the length of the input is skipped, so the
\* array has no more entries than there are rows with an index in range.
C10_ReverseLookup ==
    lastCb = "detections" =>
        LET n == Len(detections_in)
            inRange == { k \in 1..Len(boxmot_tracks) :
                           RowInd(boxmot_tracks[k]) >= 0
                           /\ RowInd(boxmot_tracks[k]) < n }
        IN /\ \A j \in 1..Len(Out) :
                 \E k \in inRange :
                    LET t == boxmot_tracks[k]
                    IN /\ Out[j].obj = RowInd(t) + 1
                       /\ Out[j].cx * 2 = t[1] + t[3]
                       /\ Out[j].cy * 2 = t[2] + t[4]
                       /\ Out[j].w = t[3] - t[1]
                       /\ Out[j].h = t[4] - t[2]
                       /\ Out[j].id = IntStr(RowId(t))
                       /\ Out[j].id # ""
                       /\ Out[j].score = detections_in[RowInd(t) + 1].score
                       /\ Out[j].class_id = detections_in[RowInd(t) + 1].class_id
           /\ Len(Out) <= Cardinality(inRange)


\* C8: callbacks never overlap: at most one invocation is in progress at any
\* time (so no frame starts, and no request runs, in the middle of a
\* detections_cb), and the loop of one detections_cb reads a single value of
\* selected_object_id.
C8_FrameSequential ==
    /\ Len(executing) <= 1
    /\ \A i \in 1..Len(executing) : Cardinality(executing[i].sels) <= 1

C8_Witness ==
    /\ lastCb = "entered"
    /\ last_request = <<1>>
    /\ \E i \in 1..Len(executing) :
          /\ executing[i].cb = "detections_cb"
          /\ Len(executing[i].rows) = 2
          /\ executing[i].k = 2
          /\ executing[i].sels = {<<1>>}

====
